---- MODULE Spec2Model ----
(***************************************************************************)
(* AsTTYSpy (src/asttyspy.c): a terminal TTY/TDD for an Asterisk channel.  *)
(*                                                                         *)
(* Three execution contexts share the process state:                       *)
(*   - the main thread: ttyspy -> get_channel -> handle_input -> send_msg  *)
(*   - the manager client's event thread, which runs ami_callback once per *)
(*     event (and simple_disconnect_callback on a forced disconnect)       *)
(*   - the SIGINT handler restore_term, which runs on top of whichever     *)
(*     thread the signal is delivered to and suspends that thread.         *)
(*                                                                         *)
(* Characters are one-character strings; C strings are sequences of them.  *)
(* Two history variables record what the process did: out has the writes   *)
(* to the terminal (who wrote, what kind of text; see Write for how much   *)
(* of the past it keeps), actions has the manager actions sent since the   *)
(* main thread last read a key.  The text itself is kept where the code    *)
(* holds it: displayed (the rows of the last listing), echoed (what        *)
(* send_msg echoed), shown (what ami_callback printed).  strdup is taken   *)
(* to succeed.  When the process exits, its state is cleared; term,        *)
(* origterm, ttyterm and exit_cause remain as the record of the exit.      *)
(***************************************************************************)
EXTENDS Integers, Sequences, FiniteSets, TLC

(* ------------------------------ bounds -------------------------------- *)
\* inputs of a run: the keys and dial lines read by handle_input (an escape key and
\* the command key after it are one input), the text events that pass
\* ami_callback's filters, an interrupt signal that finds the mutex held
MaxInputs == 2
\* CoreShowChannels queries issued in one run
MaxListings == 2
\* bytes of the dial buffer that are modelled (the source's buffer has 64)
DialNumSize == 2
\* bytes after the dial buffer that the digit scan may run into
MaxOverrun == 1

(* --------------------------- characters ------------------------------- *)
KEY_ESCAPE == "ESC"
NUL == "NUL"
NL == "\n"
BACKSLASH == "\\"

Digits == {"0", "1", "2", "3", "4", "5", "6", "7", "8", "9"}

DigitVal(c) ==
  CASE c = "0" -> 0 [] c = "1" -> 1 [] c = "2" -> 2 [] c = "3" -> 3 [] c = "4" -> 4
    [] c = "5" -> 5 [] c = "6" -> 6 [] c = "7" -> 7 [] c = "8" -> 8 [] c = "9" -> 9

\* line 196: the characters that can be sent as tones
IS_DTMF_NoDigits(x) == x \in {"A", "B", "C", "D"} \/ x = "*" \/ x = "#"

IS_DTMF(x) == x \in Digits \/ x \in {"A", "B", "C", "D"} \/ x = "*" \/ x = "#"

TTY_RX_OPTIONS == <<"b", "(", "1", ")", "s">>
GREETING == <<"H", "E", "L", "L", "O", " ", "G", "A">>

(* ------------------------------ inputs -------------------------------- *)
\* channel names the server may report
Channels == {"chA", "chB"}

\* keys the user may press after the escape key
Keys == {KEY_ESCAPE, "q", "h", "d", "1", "2", "4", "8", " "}
\* keys the user may press otherwise: the escape key, a tone character, a letter
\* that is also a command, a space
TextKeys == {KEY_ESCAPE, "1", "q", " "}

\* lines the user may enter at the channel prompt (each shorter than channo)
SelectionLines ==
  { <<NL>>, <<"q", NL>>, <<"Q", NL>>, <<"0", NL>>, <<"1", NL>>, <<"2", NL>>,
    <<"x", NL>>, <<"1", "x", NL>> }

\* characters of a line entered at the dial prompt
DialChars == {"1", "#", NL}
\* a byte that was never written
UNINIT == "UNINIT"
\* what a byte that was never written, in the dial buffer or after it, may hold
StackBytes == {NUL, "9"}

\* Message values of a TddRxMsg event: the line-break token, a text with
\* placeholders, and a text that contains the token without being equal to it
Payloads ==
  { <<BACKSLASH, "n">>, <<"H", "I", "_", "G", "A", "_">>, <<"_", BACKSLASH, "n">> }

TopologyEvents == {"Newchannel", "Hangup", "DeviceStateChange"}

\* an event's name and Channel (its Message is first looked at in line 140)
Events ==
  { [name |-> e, channel |-> ""] : e \in TopologyEvents \cup {"FullyBooted"} }
  \cup { [name |-> "TddRxMsg", channel |-> c] : c \in Channels }

\* a CoreShowChannels response: the response itself, one event per channel, the
\* CoreShowChannelsComplete event
Listings ==
  { <<"Response">> \o chans \o <<"CoreShowChannelsComplete">> :
      chans \in { s \in UNION { [1..k -> Channels] : k \in 0..Cardinality(Channels) } :
                    \A a, b \in DOMAIN s : a # b => s[a] # s[b] } }

\* the attributes the terminal may have when the program starts (line buffered,
\* echo on or off)
StartAttrs == { [icanon |-> TRUE, echo |-> e] : e \in BOOLEAN }

(* ------------------------------ state --------------------------------- *)
VARIABLES
  term, origterm, ttyterm,                 \* the terminal's attributes; saved; working copy
  tty_active, new_channel, our_turn,       \* internal flags
  ttychan, always_refresh,                 \* target channel; -r option
  ttymutex,                                \* owner of ttymutex: "none", "main", "relay"
  pc,                                      \* position of the main thread
  resp, i, invalid, channo, chan_no, res,  \* get_channel's locals
  displayed,                               \* the rows print_channels printed last
  got_escape, dtmf_mode, dialnum, digits_read, current_digit, key,  \* handle_input's locals
  typed, ttymsg, sm_res,                   \* send_msg's argument and locals
  echoed,                                  \* what send_msg's printf wrote
  cb_pc, cb_msg,                           \* position of ami_callback, its msg
  shown,                                   \* what ami_callback's printf wrote
  sig_pc, sig_thread,                      \* position of restore_term, the thread it runs on
  sig_installed,                           \* signal(SIGINT, restore_term) has run
  proc, exit_cause, connected,             \* process alive; why it exited; manager connection
  out,                                     \* the writes to the terminal so far
  actions,                                 \* manager actions since the last key was read
  ninputs, nlist,                          \* inputs consumed, listings made so far
  topo_pending                             \* a topology event has arrived at the channel
                                           \* prompt since the last CoreShowChannels query

termVars == <<term, origterm, ttyterm>>
flagVars == <<tty_active, new_channel, our_turn, ttychan, always_refresh>>
gcVars == <<resp, i, invalid, channo, chan_no, res, displayed>>
hiVars == <<got_escape, dtmf_mode, dialnum, digits_read, current_digit, key>>
smVars == <<typed, ttymsg, sm_res, echoed>>
cbVars == <<cb_pc, cb_msg, shown>>
sigVars == <<sig_pc, sig_thread, sig_installed>>
procVars == <<proc, exit_cause, connected>>
cntVars == <<ninputs, nlist, topo_pending>>

vars == <<termVars, flagVars, ttymutex, pc, gcVars, hiVars, smVars, cbVars, sigVars,
          procVars, out, actions, cntVars>>

(* ------------------------------ helpers ------------------------------- *)
\* one printf/fprintf of context ctx; note is the turn label's name, or the result
\* of the send whose text is echoed
Entry(ctx, kind, note) == [ctx |-> ctx, kind |-> kind, note |-> note]

IsChunk(e) == e.kind \in {"echo", "text"}

IsLabel(e) == e.kind = "label"

\* the conversation is the turn labels and the text; of a run of other writes
\* (menu, banner, listing, prompt, clear, messages) only the latest is kept
RECURSIVE Push(_, _)
Push(s, entries) ==
  IF entries = <<>> THEN s
  ELSE LET e == Head(entries)
           other(x) == ~IsChunk(x) /\ ~IsLabel(x)
       IN IF s # <<>> /\ other(s[Len(s)]) /\ other(e)
            THEN Push([s EXCEPT ![Len(s)] = e], Tail(entries))
            ELSE Push(Append(s, e), Tail(entries))

\* out keeps the writes from the last text chunk but one onwards: what came before
\* that chunk is dropped
Window(s) ==
  LET idx == { k \in 1..Len(s) : IsChunk(s[k]) }
  IN IF Cardinality(idx) <= 2 THEN s
     ELSE LET last == CHOOSE k \in idx : \A m \in idx : m <= k
              prev == CHOOSE k \in idx \ {last} : \A m \in idx \ {last} : m <= k
          IN SubSeq(s, prev, Len(s))

\* the printfs of one step
Write(entries) == out' = Window(Push(out, entries))

\* exit(): the process image is gone; the terminal keeps its attributes (origterm and
\* ttyterm are kept as the record of what the session had saved and set)
Exit(cause) ==
  /\ proc' = "exited" /\ exit_cause' = cause /\ connected' = FALSE
  /\ tty_active' = 0 /\ new_channel' = 0 /\ our_turn' = 0 /\ ttychan' = ""
  /\ ttymutex' = "none" /\ pc' = "done"
  /\ resp' = <<>> /\ i' = 0 /\ invalid' = 0 /\ channo' = <<>> /\ chan_no' = 0 /\ res' = 0
  /\ displayed' = [count |-> 0, rows |-> <<>>]
  /\ got_escape' = 0 /\ dtmf_mode' = 0 /\ dialnum' = <<>> /\ digits_read' = 0
  /\ current_digit' = 1 /\ key' = NUL
  /\ typed' = <<>> /\ ttymsg' = <<>> /\ sm_res' = 0 /\ echoed' = <<>>
  /\ cb_pc' = "idle" /\ cb_msg' = <<>> /\ shown' = <<>>
  /\ sig_pc' = "none" /\ sig_thread' = "main"
  /\ out' = <<>> /\ actions' = <<>>
  /\ ninputs' = 0 /\ nlist' = 0 /\ topo_pending' = FALSE
  /\ UNCHANGED <<origterm, ttyterm, always_refresh, sig_installed>>

\* one ami_action and its result (0 success, -1 failure; "pending" while in flight)
Action(name, channel, data, result) ==
  [name |-> name, channel |-> channel, data |-> data, result |-> result]

ActionResults == {0, -1}

\* a thread runs unless the process has exited or the signal handler sits on top of it
Runs(t) == proc = "running" /\ ~(sig_pc # "none" /\ sig_thread = t)

(* ------------------------- C library functions ------------------------ *)
IsSpace(c) == c \in {" ", NL, "\t"}

RECURSIVE SkipSpace(_, _)
SkipSpace(s, k) == IF k <= Len(s) /\ IsSpace(s[k]) THEN SkipSpace(s, k + 1) ELSE k

RECURSIVE AtoiDigits(_, _, _)
AtoiDigits(s, k, acc) ==
  IF k <= Len(s) /\ s[k] \in Digits
    THEN AtoiDigits(s, k + 1, acc * 10 + DigitVal(s[k]))
    ELSE acc

\* atoi: leading white space, an optional sign, then digits up to the first other
\* character (the lines modelled here are far too short to overflow an int)
Atoi(s) ==
  LET k == SkipSpace(s, 1)
      neg == k <= Len(s) /\ s[k] = "-"
      d == IF k <= Len(s) /\ s[k] \in {"-", "+"} THEN k + 1 ELSE k
      v == AtoiDigits(s, d, 0)
  IN IF neg THEN 0 - v ELSE v

ToLower(c) == IF c = "Q" THEN "q" ELSE c

\* strcasecmp(a, b) = 0
StrCaseEq(a, b) == Len(a) = Len(b) /\ \A k \in 1..Len(a) : ToLower(a[k]) = ToLower(b[k])

(* ------------------------------ ttyspy -------------------------------- *)
\* line 476: ttyterm.c_lflag &= ~ICANON
RawAttrs(t) == [t EXCEPT !.icanon = FALSE]

\* lines 502-503: ttyterm.c_lflag &= ~ICANON; ttyterm.c_lflag &= ~ECHO
TtyAttrs(t) == [t EXCEPT !.icanon = FALSE, !.echo = FALSE]

\* line 515: tcsetattr(STDIN_FILENO, TCSANOW, &origterm)
TeardownAttrs_Working == ttyterm

TeardownAttrs == origterm

\* lines 472-477: save the attributes, prepare the raw copy, install the handler
TsSave ==
  /\ pc = "ts_start" /\ Runs("main")
  /\ origterm' = term
  /\ ttyterm' = RawAttrs(term)
  /\ sig_installed' = TRUE
  /\ pc' = "ts_active1"
  /\ UNCHANGED <<term, flagVars, ttymutex, gcVars, hiVars, smVars, cbVars, sig_pc,
                 sig_thread, procVars, out, actions, cntVars>>

\* line 478
TsActive1 ==
  /\ pc = "ts_active1" /\ Runs("main")
  /\ tty_active' = 1
  /\ pc' = "ts_setraw1"
  /\ UNCHANGED <<termVars, new_channel, our_turn, ttychan, always_refresh, ttymutex,
                 gcVars, hiVars, smVars, cbVars, sigVars, procVars, out, actions, cntVars>>

\* line 479
TsSetRaw1 ==
  /\ pc = "ts_setraw1" /\ Runs("main")
  /\ term' = ttyterm
  /\ pc' = "ts_loop"
  /\ UNCHANGED <<origterm, ttyterm, flagVars, ttymutex, gcVars, hiVars, smVars, cbVars,
                 sigVars, procVars, out, actions, cntVars>>

\* lines 482-484 (and 390-393): top of the session loop; get_channel is entered only
\* when no channel is set
TsLoop ==
  /\ pc = "ts_loop" /\ Runs("main")
  /\ new_channel' = 1
  /\ IF ttychan = ""
       THEN /\ pc' = "gc_top"
            /\ resp' = <<>> /\ invalid' = 0
            /\ UNCHANGED <<i, channo, chan_no, res, displayed>>
       ELSE /\ pc' = "ts_enable"
            /\ UNCHANGED gcVars
  /\ UNCHANGED <<termVars, tty_active, our_turn, ttychan, always_refresh, ttymutex,
                 hiVars, smVars, cbVars, sigVars, procVars, out, actions, cntVars>>

(* ---------------------------- get_channel ----------------------------- *)
\* resp->events[k], zero-based as in the source
EventAt(r, k) == r[k + 1]

\* ami_keyvalue(event, "Channel") of a channel event
ChannelOf(ev) == ev

\* line 373-379: the row printed for resp->events[k]
Row(r, k) == <<k, ChannelOf(EventAt(r, k))>>

\* lines 370-380: the rows for k = 1 .. size - 2
Rows(r) == [k \in 1..(Len(r) - 2) |-> Row(r, k)]

\* line 452: the channel a valid chan_no resolves to
Resolve_OffByOne(r, n) == ChannelOf(EventAt(r, n + 1))

Resolve(r, n) == ChannelOf(EventAt(r, n))

\* nothing has been listed
NoListing == [count |-> 0, rows |-> <<>>]

\* lines 396-402: refresh when the flag is set or -r was given
GcTop ==
  /\ pc = "gc_top" /\ Runs("main")
  /\ IF new_channel = 1 \/ always_refresh = 1
       THEN /\ nlist < MaxListings
            /\ Write(<< Entry("main", "clear", ""), Entry("main", "banner", "") >>)
            /\ displayed' = NoListing
            /\ pc' = "gc_query"
       ELSE /\ pc' = "gc_wait"
            /\ UNCHANGED <<out, displayed>>
  /\ UNCHANGED <<termVars, flagVars, ttymutex, resp, i, invalid, channo, chan_no, res,
                 hiVars, smVars, cbVars, sigVars, procVars, actions, cntVars>>

\* lines 403-409 and 359-363: the old listing is freed, the directory is queried
GcQuery ==
  /\ pc = "gc_query" /\ Runs("main")
  /\ nlist' = nlist + 1
  /\ topo_pending' = FALSE
  /\ \/ \E r \in Listings :
          /\ resp' = r
          /\ pc' = "gc_print"
          /\ out' = out
     \/ /\ resp' = <<>>
        /\ Write(<< Entry("main", "stderr", "") >>)
        /\ pc' = "ts_disconnect"
  /\ UNCHANGED <<termVars, flagVars, ttymutex, i, invalid, channo, chan_no, res, displayed,
                 hiVars, smVars, cbVars, sigVars, procVars, actions, ninputs>>

\* lines 370-384 and 411-419: the listing, the invalid-input note, the prompt
\* (channo and chan_no are not read again before they are next written)
GcPrint ==
  /\ pc = "gc_print" /\ Runs("main")
  /\ Write(<< Entry("main", "count", ""), Entry("main", "listing", "") >>
           \o (IF invalid = 1 THEN << Entry("main", "invalid", "") >> ELSE <<>>)
           \o << Entry("main", "prompt", "") >>)
  /\ displayed' = [count |-> Len(resp) - 2, rows |-> Rows(resp)]
  /\ i' = Len(resp) - 1
  /\ invalid' = 0
  /\ channo' = <<>> /\ chan_no' = 0
  /\ pc' = "gc_clear"
  /\ UNCHANGED <<termVars, flagVars, ttymutex, resp, res, hiVars, smVars, cbVars, sigVars,
                 procVars, actions, cntVars>>

\* line 420
GcClear ==
  /\ pc = "gc_clear" /\ Runs("main")
  /\ new_channel' = 0
  /\ pc' = "gc_wait"
  /\ UNCHANGED <<termVars, tty_active, our_turn, ttychan, always_refresh, ttymutex, gcVars,
                 hiVars, smVars, cbVars, sigVars, procVars, out, actions, cntVars>>

\* lines 423-429 and 171-194: wait up to a second for input
GcWait ==
  /\ pc = "gc_wait" /\ Runs("main")
  /\ \/ /\ res' = 0 /\ pc' = "gc_top"
     \/ /\ res' = 1 /\ pc' = "gc_fgets"
     \/ /\ res' = -1 /\ pc' = "gc_free"
  /\ UNCHANGED <<termVars, flagVars, ttymutex, resp, i, invalid, channo, chan_no,
                 displayed, hiVars, smVars, cbVars, sigVars, procVars, out, actions,
                 cntVars>>

\* lines 431-434: read the line; end of input ends the selection
GcFgets ==
  /\ pc = "gc_fgets" /\ Runs("main")
  /\ \/ \E line \in SelectionLines :
          /\ channo' = line
          /\ pc' = "gc_classify"
          /\ res' = res
     \/ /\ res' = -1
        /\ pc' = "gc_free"
        /\ channo' = channo
  /\ UNCHANGED <<termVars, flagVars, ttymutex, resp, i, invalid, chan_no, displayed,
                 hiVars, smVars, cbVars, sigVars, procVars, out, actions, cntVars>>

\* lines 435-447: quit, a channel number, or refresh (after noting invalid input)
GcClassify ==
  /\ pc = "gc_classify" /\ Runs("main")
  /\ IF StrCaseEq(channo, <<"q", NL>>)
       THEN /\ res' = -1 /\ pc' = "gc_free"
            /\ UNCHANGED <<chan_no, invalid, new_channel>>
       ELSE IF channo # <<NL>>
         THEN /\ chan_no' = Atoi(channo)
              /\ IF chan_no' >= 1 /\ chan_no' < i
                   THEN /\ res' = 0 /\ pc' = "gc_resolve"
                        /\ UNCHANGED <<invalid, new_channel>>
                   ELSE /\ invalid' = 1 /\ new_channel' = 1 /\ pc' = "gc_top"
                        /\ res' = res
         ELSE /\ new_channel' = 1 /\ pc' = "gc_top"
              /\ UNCHANGED <<chan_no, invalid, res>>
  /\ UNCHANGED <<termVars, tty_active, our_turn, ttychan, always_refresh, ttymutex, resp,
                 i, channo, displayed, hiVars, smVars, cbVars, sigVars, procVars, out,
                 actions, cntVars>>

\* lines 451-453
GcResolve ==
  /\ pc = "gc_resolve" /\ Runs("main")
  /\ ttychan' = Resolve(resp, chan_no)
  /\ pc' = "gc_free"
  /\ UNCHANGED <<termVars, tty_active, new_channel, our_turn, always_refresh, ttymutex,
                 gcVars, hiVars, smVars, cbVars, sigVars, procVars, out, actions, cntVars>>

\* lines 454-455 and 484-486: free the listing, return res; the frame is gone
GcFree ==
  /\ pc = "gc_free" /\ Runs("main")
  /\ pc' = IF res = 0 THEN "ts_enable" ELSE "ts_disconnect"
  /\ resp' = <<>> /\ i' = 0 /\ invalid' = 0 /\ channo' = <<>> /\ chan_no' = 0 /\ res' = 0
  /\ displayed' = NoListing
  /\ topo_pending' = FALSE
  /\ UNCHANGED <<termVars, flagVars, ttymutex, hiVars, smVars, cbVars, sigVars, procVars,
                 out, actions, ninputs, nlist>>

\* handle_input has returned: its locals no longer exist
HiFrameGone ==
  /\ got_escape' = 0 /\ dtmf_mode' = 0 /\ dialnum' = <<>> /\ digits_read' = 0
  /\ current_digit' = 1 /\ key' = NUL

\* lines 489-493: enable TTY on the target channel
TsEnable ==
  /\ pc = "ts_enable" /\ Runs("main")
  /\ \E r \in ActionResults :
       /\ actions' = Append(actions, Action("TddRx", ttychan, TTY_RX_OPTIONS, r))
       /\ IF r # 0
            THEN /\ Write(<< Entry("main", "stderr", "") >>)
                 /\ pc' = "ts_disconnect"
            ELSE /\ out' = out
                 /\ pc' = "ts_banner"
  /\ UNCHANGED <<termVars, flagVars, ttymutex, gcVars, hiVars, smVars, cbVars, sigVars,
                 procVars, cntVars>>

\* lines 496-499: clear the screen, print the banner and the menu
TsBanner ==
  /\ pc = "ts_banner" /\ Runs("main")
  /\ Write(<< Entry("main", "clear", ""), Entry("main", "banner", ""),
                      Entry("main", "menu", "") >>)
  /\ pc' = "ts_active2"
  /\ UNCHANGED <<termVars, flagVars, ttymutex, gcVars, hiVars, smVars, cbVars, sigVars,
                 procVars, actions, cntVars>>

\* lines 502-504
TsActive2 ==
  /\ pc = "ts_active2" /\ Runs("main")
  /\ ttyterm' = TtyAttrs(ttyterm)
  /\ tty_active' = 2
  /\ pc' = "ts_setraw2"
  /\ UNCHANGED <<term, origterm, new_channel, our_turn, ttychan, always_refresh, ttymutex,
                 gcVars, hiVars, smVars, cbVars, sigVars, procVars, out, actions, cntVars>>

\* lines 505-507 and 247-248: apply, enter handle_input; dialnum is not initialised
TsSetRaw2 ==
  /\ pc = "ts_setraw2" /\ Runs("main")
  /\ term' = ttyterm
  /\ got_escape' = 0 /\ dtmf_mode' = 0
  /\ dialnum' = [k \in 1..DialNumSize |-> UNINIT]
  /\ pc' = "hi_poll"
  /\ UNCHANGED <<origterm, ttyterm, flagVars, ttymutex, gcVars, digits_read, current_digit,
                 key, smVars, cbVars, sigVars, procVars, out, actions, cntVars>>

\* line 511: handle_input returned 0
TsReselect ==
  /\ pc = "ts_reselect" /\ Runs("main")
  /\ ttychan' = ""
  /\ pc' = "ts_loop"
  /\ HiFrameGone
  /\ UNCHANGED <<termVars, tty_active, new_channel, our_turn, always_refresh, ttymutex,
                 gcVars, smVars, cbVars, sigVars, procVars, out, actions, cntVars>>

\* lines 514-516 and 590-593: the loop has been left; the connection is closed, the
\* terminal is set to the teardown attributes, ttyspy returns, main returns
TsDisconnect ==
  /\ pc = "ts_disconnect" /\ Runs("main")
  /\ Exit("return")
  /\ term' = TeardownAttrs

(* ---------------------------- handle_input ---------------------------- *)
\* lines 271-278: the escape key arms got_escape and the loop continues; another
\* key disarms it and is a command (esc_mode) when it was armed, a normal key
\* otherwise
EscapeStep_Sticky(c, esc) ==
  IF c = KEY_ESCAPE THEN [got_escape |-> 1, next |-> "hi_poll"]
  ELSE IF esc = 1 THEN [got_escape |-> 1, next |-> "hi_command"]
  ELSE [got_escape |-> esc, next |-> "hi_normal"]

EscapeStep(c, esc) ==
  IF c = KEY_ESCAPE THEN [got_escape |-> 1, next |-> "hi_poll"]
  ELSE IF esc = 1 THEN [got_escape |-> 0, next |-> "hi_command"]
  ELSE [got_escape |-> esc, next |-> "hi_normal"]

\* lines 254-278: one key is read; the escape key arms got_escape, the key after it
\* is a command
HiPoll ==
  /\ pc = "hi_poll" /\ Runs("main")
  /\ actions' = <<>>
  /\ \/ \E c \in (IF got_escape = 1 THEN Keys ELSE TextKeys) :
          /\ ninputs < MaxInputs
          /\ ninputs' = IF c = KEY_ESCAPE /\ got_escape = 0 THEN ninputs ELSE ninputs + 1
          /\ key' = c
          /\ got_escape' = EscapeStep(c, got_escape).got_escape
          /\ pc' = EscapeStep(c, got_escape).next
     \/ /\ pc' = "ts_disconnect"
        /\ UNCHANGED <<key, got_escape, ninputs>>
  /\ UNCHANGED <<termVars, flagVars, ttymutex, gcVars, dtmf_mode, dialnum, digits_read,
                 current_digit, smVars, cbVars, sigVars, procVars, out, nlist,
                 topo_pending>>

\* line 301: the attributes in force while the number is read
DialAttrs == origterm

\* lines 281-333: the command after the escape key
HiCommand ==
  /\ pc = "hi_command" /\ Runs("main")
  /\ current_digit' = 1
  /\ key' = NUL
  /\ \/ /\ key \in {"q", "Q"}
        /\ pc' = "ts_disconnect"
        /\ UNCHANGED <<term, dtmf_mode, typed, out>>
     \/ /\ key \in {"h", "H"}
        /\ Write(<< Entry("main", "menu", "") >>)
        /\ pc' = "hi_poll"
        /\ UNCHANGED <<term, dtmf_mode, typed>>
     \/ /\ key = "d"
        /\ dtmf_mode' = IF dtmf_mode = 1 THEN 0 ELSE 1
        /\ pc' = "hi_poll"
        /\ UNCHANGED <<term, typed, out>>
     \/ /\ key = "1"
        /\ Write(<< Entry("main", "nbr", "") >>)
        /\ term' = DialAttrs
        /\ pc' = "hi_dial_read"
        /\ UNCHANGED <<dtmf_mode, typed>>
     \/ /\ key = "2"
        /\ pc' = "ts_reselect"
        /\ UNCHANGED <<term, dtmf_mode, typed, out>>
     \/ /\ key = "4"
        /\ typed' = GREETING
        /\ pc' = "sm_lock"
        /\ UNCHANGED <<term, dtmf_mode, out>>
     \/ /\ key = "8"
        /\ Write(<< Entry("main", "clear", "") >>)
        /\ pc' = "hi_poll"
        /\ UNCHANGED <<term, dtmf_mode, typed>>
     \/ /\ key \notin {"q", "Q", "h", "H", "d", "1", "2", "4", "8"}
        /\ pc' = "hi_poll"
        /\ UNCHANGED <<term, dtmf_mode, typed, out>>
  /\ UNCHANGED <<origterm, ttyterm, flagVars, ttymutex, gcVars, got_escape, dialnum,
                 digits_read, ttymsg, sm_res, echoed, cbVars, sigVars, procVars, actions,
                 cntVars>>

\* read(STDIN_FILENO, dialnum, sizeof(dialnum)) having returned the n bytes of line:
\* the first n bytes are overwritten, the rest keep what they held, no NUL is added
ReadInto(buf, line) ==
  [k \in 1..Len(buf) |-> IF k <= Len(line) THEN line[k] ELSE buf[k]]

\* lines 302-306: the number is read with the original attributes in force
HiDialRead ==
  /\ pc = "hi_dial_read" /\ Runs("main")
  /\ term' = ttyterm
  /\ \/ \E n \in 1..DialNumSize : \E line \in [1..n -> DialChars] :
          /\ ninputs < MaxInputs
          /\ ninputs' = ninputs + 1
          /\ dialnum' = ReadInto(dialnum, line)
          /\ digits_read' = n
          /\ pc' = "hi_dial_loop"
     \/ /\ digits_read' = 0
        /\ dialnum' = dialnum
        /\ pc' = "hi_poll"
        /\ ninputs' = ninputs
  /\ UNCHANGED <<origterm, ttyterm, flagVars, ttymutex, gcVars, got_escape, dtmf_mode,
                 current_digit, key, smVars, cbVars, sigVars, procVars, out, actions,
                 nlist, topo_pending>>

\* *current_digit: a byte of dialnum, or of whatever follows it on the stack; a
\* byte never written holds an indeterminate value
BytesAt(buf, k) == IF k <= Len(buf) /\ buf[k] # UNINIT THEN {buf[k]} ELSE StackBytes

\* lines 310-312, 321-323, 338-340, 346-348 with 507-509: a failed send_dtmf or
\* send_msg makes handle_input return -1 and ttyspy leave its loop; after a
\* successful one handle_input goes on
OnResult_Ignored(r, cont) == cont

OnResult(r, cont) == IF r # 0 THEN "ts_disconnect" ELSE cont

\* lines 198-202: PlayDTMF
SendDtmf(digit, r) == Action("PlayDTMF", ttychan, <<digit>>, r)

\* lines 308-316: one round of the digit loop, which ends at the first NUL byte
HiDialLoop ==
  /\ pc = "hi_dial_loop" /\ Runs("main")
  /\ current_digit <= DialNumSize + MaxOverrun
  /\ \E b \in BytesAt(dialnum, current_digit) :
       IF b = NUL
         THEN /\ pc' = "hi_poll"
              /\ UNCHANGED <<current_digit, actions>>
         ELSE IF IS_DTMF(b)
           THEN \E r \in ActionResults :
                  /\ actions' = Append(actions, SendDtmf(b, r))
                  /\ pc' = OnResult(r, "hi_dial_loop")
                  /\ current_digit' = IF r # 0 THEN current_digit ELSE current_digit + 1
           ELSE /\ current_digit' = current_digit + 1
                /\ pc' = "hi_dial_loop"
                /\ actions' = actions
  /\ UNCHANGED <<termVars, flagVars, ttymutex, gcVars, got_escape, dtmf_mode, dialnum,
                 digits_read, key, smVars, cbVars, sigVars, procVars, out, cntVars>>

\* lines 336-348: a key outside escape mode is a tone in DTMF mode, text otherwise
HiNormal ==
  /\ pc = "hi_normal" /\ Runs("main")
  /\ IF dtmf_mode = 1 /\ IS_DTMF(key)
       THEN /\ \E r \in ActionResults :
                 /\ actions' = Append(actions, SendDtmf(key, r))
                 /\ pc' = OnResult(r, "hi_poll")
            /\ typed' = typed
       ELSE /\ typed' = <<key>>
            /\ pc' = "sm_lock"
            /\ actions' = actions
  /\ key' = NUL
  /\ UNCHANGED <<termVars, flagVars, ttymutex, gcVars, got_escape, dtmf_mode, dialnum,
                 digits_read, current_digit, ttymsg, sm_res, echoed, cbVars, sigVars,
                 procVars, out, cntVars>>

(* ------------------------------ send_msg ------------------------------ *)
\* lines 216-222: every space becomes '_'
RECURSIVE SpacesToUnderscores(_)
SpacesToUnderscores(s) ==
  IF s = <<>> THEN <<>>
  ELSE <<IF Head(s) = " " THEN "_" ELSE Head(s)>> \o SpacesToUnderscores(Tail(s))

\* line 224: the Message of the TddTx action
TddTxMessage_Raw(t) == t

TddTxMessage(t) == SpacesToUnderscores(t)

\* line 230: what is echoed
EchoText(t, m) == t

\* line 225: the turn label is printed when the send succeeded on the other side's turn
NeedLocalLabel_EverySend(r, turn) == r = 0

NeedLocalLabel_AnyResult(r, turn) == turn = 0

NeedLocalLabel(r, turn) == r = 0 /\ turn = 0

\* lines 207-224: copy the text, take the mutex, replace the spaces; the TddTx
\* action goes out and the mutex is held while it is in flight
SmLock ==
  /\ pc = "sm_lock" /\ Runs("main")
  /\ ttymutex = "none"
  /\ ttymutex' = "main"
  /\ ttymsg' = TddTxMessage(typed)
  /\ actions' = Append(actions, Action("TddTx", ttychan, ttymsg', "pending"))
  /\ pc' = "sm_wait"
  /\ UNCHANGED <<termVars, flagVars, gcVars, hiVars, typed, sm_res, echoed, cbVars,
                 sigVars, procVars, out, cntVars>>

\* lines 224-230: the result arrives; turn label if needed; the typed text is echoed
SmResult ==
  /\ pc = "sm_wait" /\ Runs("main")
  /\ \E r \in ActionResults :
       /\ sm_res' = r
       /\ actions' = [actions EXCEPT ![Len(actions)].result = r]
       /\ IF NeedLocalLabel(r, our_turn)
            THEN /\ Write(<< Entry("main", "label", "CA"), Entry("main", "echo", r) >>)
                 /\ our_turn' = 1
            ELSE /\ Write(<< Entry("main", "echo", r) >>)
                 /\ our_turn' = our_turn
  /\ echoed' = EchoText(typed, ttymsg)
  /\ pc' = "sm_unlock"
  /\ UNCHANGED <<termVars, tty_active, new_channel, ttychan, always_refresh, ttymutex,
                 gcVars, hiVars, typed, ttymsg, cbVars, sigVars, procVars, cntVars>>

\* lines 231-240, and 321-324 or 346-348 in the caller: unlock, report, return
SmUnlock ==
  /\ pc = "sm_unlock" /\ Runs("main")
  /\ ttymutex' = "none"
  /\ IF sm_res # 0
       THEN Write(<< Entry("main", "stderr", "") >>)
       ELSE out' = out
  /\ pc' = OnResult(sm_res, "hi_poll")
  /\ typed' = <<>> /\ ttymsg' = <<>> /\ sm_res' = 0 /\ echoed' = <<>>
  /\ UNCHANGED <<termVars, flagVars, gcVars, hiVars, cbVars, sigVars, procVars, actions,
                 cntVars>>

(* ---------------------------- ami_callback ---------------------------- *)
\* lines 146-152: every '_' becomes a space
RECURSIVE UnderscoresToSpaces(_)
UnderscoresToSpaces(s) ==
  IF s = <<>> THEN <<>>
  ELSE <<IF Head(s) = "_" THEN " " ELSE Head(s)>> \o UnderscoresToSpaces(Tail(s))

\* lines 140-156: what is printed for a message (strdup is taken to succeed)
Decode_NoNewline(msg) == UnderscoresToSpaces(msg)

Decode(msg) ==
  IF msg = <<BACKSLASH, "n">> THEN <<NL>> ELSE UnderscoresToSpaces(msg)

\* lines 119-131: what the callback does with an event: note the topology change,
\* drop the event, or go on to display its Message
Filter(ev) ==
  IF tty_active = 1 /\ ev.name \in TopologyEvents THEN "signal"
  ELSE IF tty_active < 2 THEN "drop"
  ELSE IF ev.name # "TddRxMsg" THEN "drop"
  ELSE IF ev.channel # ttychan THEN "drop"
  ELSE "display"

\* get_channel is between a listing and the next query: lines 411-447
AtPrompt == pc \in {"gc_print", "gc_clear", "gc_wait", "gc_top", "gc_fgets", "gc_classify"}

\* lines 117-134: an event is dequeued and filtered
CbEvent ==
  /\ cb_pc = "idle" /\ Runs("relay")
  /\ connected
  /\ \E ev \in Events :
       /\ topo_pending' = (topo_pending \/ (ev.name \in TopologyEvents /\ AtPrompt))
       /\ IF Filter(ev) = "signal"
            THEN /\ new_channel' = 1
                 /\ UNCHANGED <<cb_pc, cb_msg, ninputs>>
            ELSE IF Filter(ev) = "drop"
              THEN UNCHANGED <<new_channel, cb_pc, cb_msg, ninputs>>
              ELSE /\ ninputs < MaxInputs
                   /\ ninputs' = ninputs + 1
                   /\ cb_msg' = cb_msg
                   /\ cb_pc' = "cb_lock"
                   /\ new_channel' = new_channel
  /\ UNCHANGED <<termVars, tty_active, our_turn, ttychan, always_refresh, ttymutex, pc,
                 gcVars, hiVars, smVars, shown, sigVars, procVars, out, actions, nlist>>

\* lines 135-139: take the mutex; the turn label, when the turn was ours
CbLock ==
  /\ cb_pc = "cb_lock" /\ Runs("relay")
  /\ ttymutex = "none"
  /\ ttymutex' = "relay"
  /\ IF our_turn # 0
       THEN /\ Write(<< Entry("relay", "label", "TTY") >>)
            /\ our_turn' = 0
       ELSE UNCHANGED <<out, our_turn>>
  /\ cb_pc' = "cb_print"
  /\ UNCHANGED <<termVars, tty_active, new_channel, ttychan, always_refresh, pc, gcVars,
                 hiVars, smVars, cb_msg, shown, sigVars, procVars, actions, cntVars>>

\* lines 140-156: the event's Message is looked at and printed
CbPrint ==
  /\ cb_pc = "cb_print" /\ Runs("relay")
  /\ \E msg \in Payloads :
       /\ cb_msg' = msg
       /\ shown' = Decode(msg)
  /\ Write(<< Entry("relay", "text", "") >>)
  /\ cb_pc' = "cb_unlock"
  /\ UNCHANGED <<termVars, flagVars, ttymutex, pc, gcVars, hiVars, smVars, sigVars,
                 procVars, actions, cntVars>>

\* lines 157-161: flush, unlock, free the event
CbUnlock ==
  /\ cb_pc = "cb_unlock" /\ Runs("relay")
  /\ ttymutex' = "none"
  /\ cb_pc' = "idle"
  /\ cb_msg' = <<>> /\ shown' = <<>>
  /\ UNCHANGED <<termVars, flagVars, pc, gcVars, hiVars, smVars, sigVars, procVars, out,
                 actions, cntVars>>

(* ---------------------- simple_disconnect_callback -------------------- *)
\* lines 164-169: the manager connection was lost; the process exits at once
ForcedDisconnect ==
  /\ proc = "running"
  /\ connected
  /\ Exit("disconnect")
  /\ term' = term

(* ----------------------------- restore_term --------------------------- *)
\* the threads a process-directed signal may be delivered to
Threads == IF connected THEN {"main", "relay"} ELSE {"main"}

\* line 463: the attributes the handler sets
SigAttrs == origterm

\* SIGINT arrives (the handler is installed, line 477) on thread t while the mutex
\* is free: lines 461-467 run through, the process exits
SigRestore ==
  /\ proc = "running"
  /\ sig_installed
  /\ sig_pc = "none"
  /\ ttymutex = "none"
  /\ Exit("sigint")
  /\ term' = SigAttrs

\* SIGINT arrives on thread t while the mutex is held: the handler waits at line 461
\* on top of t.  The mutex is not recursive: when t itself is the holder, the
\* release the handler waits for can no longer happen.  The run goes on after this
\* arrival, so it counts as one of the run's inputs
SigBlock ==
  /\ proc = "running"
  /\ sig_installed
  /\ sig_pc = "none"
  /\ ttymutex # "none"
  /\ ninputs < MaxInputs
  /\ ninputs' = ninputs + 1
  /\ \E t \in Threads : sig_thread' = t
  /\ sig_pc' = "sig_lock"
  /\ UNCHANGED <<termVars, flagVars, ttymutex, pc, gcVars, hiVars, smVars, cbVars,
                 sig_installed, procVars, out, actions, nlist, topo_pending>>

\* the holder, another thread, has released the mutex: lines 461-467 run through
SigResume ==
  /\ proc = "running"
  /\ sig_pc = "sig_lock"
  /\ ttymutex = "none"
  /\ Exit("sigint")
  /\ term' = SigAttrs

(* --------------------------- specification ---------------------------- *)
\* the state when main calls ttyspy (lines 102-112, 531-590): the statics are zero,
\* -c may have named a channel, -r may have been given, the connection is up
Init ==
  /\ term \in StartAttrs
  /\ origterm = [icanon |-> FALSE, echo |-> FALSE]
  /\ ttyterm = [icanon |-> FALSE, echo |-> FALSE]
  /\ tty_active = 0 /\ new_channel = 0 /\ our_turn = 0
  /\ ttychan \in {"", "chA"}
  /\ always_refresh \in {0, 1}
  /\ ttymutex = "none"
  /\ pc = "ts_start"
  /\ resp = <<>> /\ i = 0 /\ invalid = 0 /\ channo = <<>> /\ chan_no = 0 /\ res = 0
  /\ displayed = NoListing
  /\ got_escape = 0 /\ dtmf_mode = 0 /\ dialnum = <<>> /\ digits_read = 0
  /\ current_digit = 1 /\ key = NUL
  /\ typed = <<>> /\ ttymsg = <<>> /\ sm_res = 0 /\ echoed = <<>>
  /\ cb_pc = "idle" /\ cb_msg = <<>> /\ shown = <<>>
  /\ sig_pc = "none" /\ sig_thread = "main" /\ sig_installed = FALSE
  /\ proc = "running" /\ exit_cause = "none" /\ connected = TRUE
  /\ out = <<>> /\ actions = <<>>
  /\ ninputs = 0 /\ nlist = 0 /\ topo_pending = FALSE

Next ==
  \/ TsSave \/ TsActive1 \/ TsSetRaw1 \/ TsLoop
  \/ GcTop \/ GcQuery \/ GcPrint \/ GcClear \/ GcWait \/ GcFgets \/ GcClassify
  \/ GcResolve \/ GcFree
  \/ TsEnable \/ TsBanner \/ TsActive2 \/ TsSetRaw2 \/ TsReselect
  \/ TsDisconnect
  \/ HiPoll \/ HiCommand \/ HiDialRead \/ HiDialLoop \/ HiNormal
  \/ SmLock \/ SmResult \/ SmUnlock
  \/ CbEvent \/ CbLock \/ CbPrint \/ CbUnlock
  \/ ForcedDisconnect
  \/ SigRestore \/ SigBlock \/ SigResume

Spec == Init /\ [][Next]_vars

(* ------------------------------ properties ---------------------------- *)
\* the session has saved the terminal's attributes (lines 472-477 have run)
Saved == sig_installed

\* C1: when the forced-disconnect callback fires after the session has put the
\* terminal into raw mode, the terminal has its saved attributes again when the
\* process exits
C1_DisconnectRestores == (exit_cause = "disconnect" /\ Saved) => term = origterm

\* C2: the interrupt handler never blocks forever: it is never waiting for ttymutex
\* on top of the very thread that holds it (ttymutex is not recursive, so that wait
\* cannot end and the handler reaches neither its tcsetattr nor its exit)
C2_HandlerNeverStuck == ~(sig_pc = "sig_lock" /\ sig_thread = ttymutex)

\* C3: when the process exits by leaving the session loop (neither by the signal nor
\* by a forced disconnect), the terminal has the attributes saved at session start
C3_NormalExitRestores == exit_cause = "return" => term = origterm

\* a session that had gone active (echo switched off in the working copy) has
\* exited through the loop's end with the saved attributes in force
C3_Witness ==
  /\ exit_cause = "return"
  /\ origterm = [icanon |-> TRUE, echo |-> TRUE]
  /\ ttyterm = [icanon |-> FALSE, echo |-> FALSE]
  /\ term = origterm

\* positions a < b of two text chunks of out with no text chunk between them
Consecutive(a, b) ==
  /\ a \in DOMAIN out /\ b \in DOMAIN out /\ a < b
  /\ IsChunk(out[a]) /\ IsChunk(out[b])
  /\ \A k \in (a + 1)..(b - 1) : ~IsChunk(out[k])

\* the turn labels written between positions a and b, in order
LabelsBetween(a, b) ==
  LET mid == SubSeq(out, a + 1, b - 1)
      lab == SelectSeq(mid, IsLabel)
  IN [k \in 1..Len(lab) |-> lab[k].note]

Local(e) == e.kind = "echo"
Remote(e) == e.kind = "text"
Sent(e) == e.kind = "echo" /\ e.note = 0

C5_UnitAtomic == [][(cb_pc = "cb_print" /\ cb_pc' = "cb_print") => out' = out]_vars

\* the text with every space replaced by '_'
Underscored(t) == [k \in 1..Len(t) |-> IF t[k] = " " THEN "_" ELSE t[k]]

\* the TddTx actions among the manager actions since the last key
TddTxActions == SelectSeq(actions, LAMBDA a : a.name = "TddTx")

\* C6: when send_msg has sent and echoed, exactly one TddTx action has gone out, its
\* Message is the typed text with every space replaced by '_' and nothing else
\* changed, and the echo is the typed text itself
C6_SendText ==
  pc = "sm_unlock" =>
    /\ Len(TddTxActions) = 1
    /\ TddTxActions[1].data = Underscored(typed)
    /\ TddTxActions[1].channel = ttychan
    /\ echoed = typed

\* a text with a space has been sent and echoed
C6_Witness ==
  /\ pc = "sm_unlock"
  /\ typed = GREETING
  /\ TddTxActions[1].data = <<"H", "E", "L", "L", "O", "_", "G", "A">>
  /\ echoed = GREETING

\* the payload with every '_' replaced by a space
Spaced(m) == [k \in 1..Len(m) |-> IF m[k] = "_" THEN " " ELSE m[k]]

\* C7: what the relay writes for a payload is one line break when the payload is
\* backslash-n, and otherwise the payload with every '_' replaced by a space and
\* nothing else changed or added
C7_Decode ==
  cb_pc = "cb_unlock" =>
    shown = (IF Len(cb_msg) = 2 /\ cb_msg[1] = BACKSLASH /\ cb_msg[2] = "n"
               THEN <<NL>> ELSE Spaced(cb_msg))

\* the payload backslash-n has been written as a line break
C7_Witness == cb_pc = "cb_unlock" /\ cb_msg = <<BACKSLASH, "n">> /\ shown = <<NL>>

\* C8: a listing of N raw events shows N-2 rows, numbered 1..N-2, row k naming the
\* channel of raw event k; a chosen number resolves to the channel named in that
\* row of the listing shown last
C8_Listing ==
  /\ pc \in {"gc_clear", "gc_wait", "gc_fgets", "gc_classify", "gc_resolve"} =>
       /\ displayed.count = Len(resp) - 2
       /\ Len(displayed.rows) = Len(resp) - 2
       /\ \A k \in 1..(Len(resp) - 2) : displayed.rows[k] = <<k, resp[k + 1]>>
  /\ (pc = "gc_free" /\ res = 0) =>
       /\ chan_no \in 1..displayed.count
       /\ ttychan = displayed.rows[chan_no][2]

\* the second row of a second listing has been chosen and resolved
C8_Witness ==
  /\ pc = "gc_free" /\ res = 0
  /\ nlist = 2
  /\ displayed.count = 2 /\ chan_no = 2
  /\ ttychan = displayed.rows[2][2]

\* digits only, ended by the line break
IsNumericLine(line) ==
  /\ Len(line) >= 2
  /\ line[Len(line)] = NL
  /\ \A k \in 1..(Len(line) - 1) : line[k] \in Digits

RECURSIVE NumericValue(_)
NumericValue(ds) ==
  IF ds = <<>> THEN 0
  ELSE 10 * NumericValue(SubSeq(ds, 1, Len(ds) - 1)) + DigitVal(ds[Len(ds)])

\* what a line entered at the prompt of a listing of n raw events is to be taken as
ExpectedClass(line, n) ==
  IF line = <<NL>> THEN "Refresh"
  ELSE IF line \in {<<"q", NL>>, <<"Q", NL>>} THEN "Quit"
  ELSE IF IsNumericLine(line)
          /\ NumericValue(SubSeq(line, 1, Len(line) - 1)) \in 1..(n - 2)
    THEN "ChannelId"
  ELSE "Invalid"

\* what get_channel has taken the line as (channo holds a line from its
\* classification until the next listing is printed)
Classified == channo # <<>> /\ pc \in {"gc_resolve", "gc_free", "gc_top"}

ActualClass ==
  IF pc = "gc_resolve" \/ (pc = "gc_free" /\ res = 0) THEN "ChannelId"
  ELSE IF pc = "gc_free" THEN "Quit"
  ELSE IF invalid = 1 THEN "Invalid"
  ELSE "Refresh"

\* C9: the empty line is a refresh, 'q' in either case quits, a numeric string with
\* a value in 1..N-2 and nothing else is a channel number, anything else is invalid
\* and leads back to the prompt
C9_Classification == Classified => ActualClass = ExpectedClass(channo, Len(resp))

\* the tone characters of the manager actions since the dial command
TonesSent ==
  LET t == SelectSeq(actions, LAMBDA a : a.name = "PlayDTMF")
  IN [k \in 1..Len(t) |-> t[k].data[1]]

\* the valid tone characters of the string entered for this dial
TonesEntered == SelectSeq(SubSeq(dialnum, 1, digits_read), IS_DTMF)

IsPrefix(s, t) == Len(s) <= Len(t) /\ \A k \in 1..Len(s) : s[k] = t[k]

\* C10: the tones a dial emits are the valid tone characters of the string entered
\* for that dial, in order, and no others
C10_DialTones == pc = "hi_dial_loop" => IsPrefix(TonesSent, TonesEntered)

\* the main thread is in the Active phase: TddRx has succeeded for ttychan and
\* handle_input (with the send_msg calls it makes) is running, or has just ended
\* the session while the connection is still up
ActivePcs ==
  {"ts_setraw2", "hi_poll", "hi_command", "hi_normal", "hi_dial_read", "hi_dial_loop",
   "sm_lock", "sm_wait", "sm_unlock", "ts_disconnect"}

Active == pc \in ActivePcs /\ ttychan # ""

\* the relay writes its text chunk in this step
RelayWrites == cb_pc = "cb_print" /\ cb_pc' = "cb_unlock"

\* C11: an inbound text event is written to the terminal only while the session is
\* in its Active phase for the current channel (not during channel selection or
\* reselection, and not before TddRx has succeeded for the channel)
C11_DisplayedOnlyWhenActive == [][RelayWrites => Active]_vars

\* C12: whenever the relay can take an event, in the selection phase or in the
\* active phase, a topology-changing event (Newchannel, Hangup, DeviceStateChange)
\* sets new_channel (and, by the model of the filter, does nothing else)
C12_TopologySignals ==
  (proc = "running" /\ connected /\ cb_pc = "idle" /\ tty_active >= 1) =>
    \A ev \in Events : ev.name \in TopologyEvents => Filter(ev) = "signal"

\* C13: a topology event that arrives while get_channel is at the prompt is followed
\* by a new query without any user input: while such an event is pending and the
\* loop of lines 395-429 is polling, what makes the loop query again (new_channel,
\* or -r) is set.  Where this fails the loop polls forever without querying, however
\* the threads are scheduled
C13_SignalNotLost ==
  (proc = "running" /\ topo_pending /\ pc \in {"gc_wait", "gc_top"}) =>
    (new_channel = 1 \/ always_refresh = 1)

\* handle_input reads a key in this step (line 265)
KeyRead ==
  /\ pc = "hi_poll" /\ (ninputs' = ninputs + 1 \/ got_escape' # got_escape)
  /\ cb_pc' = cb_pc /\ sig_pc' = sig_pc /\ proc' = "running"

\* what send_msg is given comes from a key handled in Normal state or is the canned
\* greeting of a command
NotForwarded == pc = "hi_command" => (typed = <<>> /\ actions = <<>>)

\* C14 (as stated): the escape key arms EscapePending, and whatever key is read next
\* disarms it: that key is a command and the key after it is handled in Normal state
C14_Escape_AsStated ==
  [][KeyRead =>
       /\ (key' = KEY_ESCAPE /\ got_escape = 0) => (got_escape' = 1 /\ pc' = "hi_poll")
       /\ got_escape = 1 => (got_escape' = 0 /\ pc' \in {"hi_command", "hi_poll"})
       /\ (key' # KEY_ESCAPE /\ got_escape = 0) => (got_escape' = 0 /\ pc' = "hi_normal")
    ]_vars

\* C14 (amended): the escape key arms EscapePending, also when it is already armed;
\* the first other key read while armed disarms it and is a command, never text or
\* tone; a key other than the escape key read while disarmed is handled in Normal
\* state; no command arms it
C14_Escape ==
  [][/\ KeyRead =>
          /\ key' = KEY_ESCAPE => (got_escape' = 1 /\ pc' = "hi_poll")
          /\ (key' # KEY_ESCAPE /\ got_escape = 1) =>
               (got_escape' = 0 /\ pc' = "hi_command" /\ NotForwarded')
          /\ (key' # KEY_ESCAPE /\ got_escape = 0) =>
               (got_escape' = 0 /\ pc' = "hi_normal")
     /\ (pc = "hi_command" /\ pc' # pc /\ proc' = "running") =>
          (got_escape' = 0 /\ (typed' # <<>> => typed' = GREETING))
    ]_vars

\* after ESC d, a key has been read and is handled in Normal state
C14_Witness == pc = "hi_normal" /\ dtmf_mode = 1 /\ got_escape = 0 /\ key = "1"

\* the valid tone characters: digits, A-D, * and #
ValidTone == {"0", "1", "2", "3", "4", "5", "6", "7", "8", "9", "A", "B", "C", "D", "*", "#"}

\* handle_input dispatches the key it has read outside escape mode in this step
NormalKey == pc = "hi_normal" /\ pc' # pc /\ proc' = "running"

\* the key goes out as exactly one action: a tone in DTMF mode if it is a valid tone
\* character, else the one-character text handed to send_msg, which issues one TddTx
OneAction ==
  /\ NormalKey =>
       IF dtmf_mode = 1 /\ key \in ValidTone
         THEN /\ Len(actions') = Len(actions) + 1
              /\ actions'[Len(actions')].name = "PlayDTMF"
              /\ actions'[Len(actions')].data = <<key>>
              /\ pc' \in {"hi_poll", "ts_disconnect"}
         ELSE /\ actions' = actions /\ typed' = <<key>> /\ pc' = "sm_lock"
  /\ (pc = "sm_lock" /\ pc' # pc /\ proc' = "running") =>
       /\ Len(actions') = Len(actions) + 1
       /\ actions'[Len(actions')].name = "TddTx"
       /\ pc' = "sm_wait"
  /\ (pc \in {"sm_wait", "sm_unlock"} /\ proc' = "running") => Len(actions') = Len(actions)

\* C15 (as stated): a key handled in Normal state goes out as exactly one action, a
\* tone if DtmfMode is set and it is a valid tone character and the one-character
\* text otherwise; DtmfMode changes only when the toggle command is handled
C15_NormalKeys_AsStated ==
  [][/\ OneAction
     /\ (dtmf_mode' # dtmf_mode /\ proc' = "running") => (pc = "hi_command" /\ key = "d")
    ]_vars

\* C15 (amended): as above, but DtmfMode also changes when the reselect command ends
\* the active session: the next session starts with DtmfMode off
C15_NormalKeys ==
  [][/\ OneAction
     /\ (dtmf_mode' # dtmf_mode /\ proc' = "running") =>
          \/ pc = "hi_command" /\ key = "d"
          \/ pc = "ts_reselect" /\ dtmf_mode' = 0
     /\ (pc = "ts_reselect" /\ pc' # pc /\ proc' = "running") => dtmf_mode' = 0
    ]_vars

\* a tone has gone out for a key typed in DTMF mode
C15_Witness ==
  /\ pc = "hi_poll" /\ dtmf_mode = 1 /\ Len(actions) = 1
  /\ actions[1].name = "PlayDTMF" /\ actions[1].result = 0

\* the action whose result send_msg is waiting for
InFlight(k) == pc = "sm_wait" /\ k = Len(actions)

\* a failed action is the last one issued, and the main thread is on its way out:
\* send_msg is about to return the failure, or ttyspy has left its loop
FailedStops ==
  \A k \in DOMAIN actions :
    (~InFlight(k) /\ actions[k].result = -1) =>
      /\ k = Len(actions)
      /\ pc \in {"sm_unlock", "ts_disconnect"}
      /\ pc = "sm_unlock" => sm_res = -1

\* C16: after a failed TddRx, TddTx or PlayDTMF no further action is issued and the
\* session neither goes on nor returns to channel selection; the reselect outcome
\* comes from the disconnect command alone
C16_FailureTerminates ==
  [][/\ FailedStops'
     /\ (pc' = "ts_reselect" /\ pc # "ts_reselect") => (pc = "hi_command" /\ key = "2")
    ]_vars

\* a dialled tone has failed after one that succeeded
C16_Witness ==
  /\ pc = "ts_disconnect" /\ Len(actions) = 2
  /\ actions[1].name = "PlayDTMF" /\ actions[1].result = 0
  /\ actions[2].name = "PlayDTMF" /\ actions[2].result = -1

\* the session has taken the reselect outcome and no new channel has been chosen:
\* handle_input has returned 0, or ttychan has been cleared after a session
Reselecting == pc = "ts_reselect" \/ (tty_active = 2 /\ ttychan = "")

\* C17: from the reselect outcome until a new channel is chosen the relay writes no
\* text
C17_NoTextWhileReselecting == [][RelayWrites => ~Reselecting]_vars

\* handle_input is reading keys or sending what was typed (the dial command's
\* temporary restore is at hi_dial_read and is left out)
Relaying == pc \in {"hi_poll", "hi_command", "hi_normal", "hi_dial_loop", "sm_lock", "sm_wait", "sm_unlock"}

\* C18: on a terminal that had echo when the program started, the terminal is
\* unbuffered with echo on at the selection prompt, in every selection cycle, and
\* unbuffered with echo off while the session relays
C18_EchoOffExactlyWhenActive ==
  (proc = "running" /\ Saved /\ origterm.echo) =>
    /\ AtPrompt => (~term.icanon /\ term.echo)
    /\ Relaying => (~term.icanon /\ ~term.echo)

\* C19: while an action is in flight no thread holds ttymutex
C19_NoActionUnderMutex ==
  (proc = "running" /\ \E k \in DOMAIN actions : InFlight(k)) => ttymutex = "none"

\* send_msg gets the result of its TddTx action and echoes in this step
SendReturns == pc = "sm_wait" /\ pc' = "sm_unlock"

\* the write that came last
LastWrite(s) == s[Len(s)]

\* the last write follows a "CA : " label
AfterLocalLabel(s) == Len(s) > 1 /\ IsLabel(s[Len(s) - 1]) /\ s[Len(s) - 1].note = "CA"

\* C20: a failed send leaves our_turn as it was and writes no "CA : " label, and the
\* typed text is echoed all the same; the text of a successful send is written with
\* our_turn = 1, so local text is written with our_turn = 0 only when the send failed
C20_FailedSendEcho ==
  [][SendReturns =>
       /\ out' # <<>> /\ LastWrite(out') = Entry("main", "echo", sm_res')
       /\ echoed' = typed
       /\ sm_res' = -1 => (our_turn' = our_turn /\ ~AfterLocalLabel(out'))
       /\ sm_res' = 0 => our_turn' = 1
       /\ our_turn' = 0 => (sm_res' = -1 /\ our_turn = 0)
    ]_vars

\* the text of a failed send has been echoed on the other side's turn
C20_Witness ==
  /\ pc = "sm_unlock" /\ sm_res = -1 /\ our_turn = 0
  /\ out # <<>> /\ LastWrite(out) = Entry("main", "echo", -1) /\ echoed = typed
  /\ Len(out) > 1 /\ Remote(out[Len(out) - 1])

====
